---------------------------- MODULE Spec2Model ----------------------------
(***************************************************************************)
(* Model of philosophers-images/process_images.py: the portrait transform  *)
(* create_rounded_portrait (centre crop, resize, elliptical alpha mask)    *)
(* and the batch driver main() that applies it to five fixed file pairs.   *)
(*                                                                         *)
(* An image is a record [mode, size, px]: px maps every coordinate <<x,y>> *)
(* with 0 <= x < width, 0 <= y < height to a pixel.  A pixel of an "RGB"   *)
(* image is [rgb |-> c], of an "RGBA" image [rgb |-> c, a |-> alpha], of   *)
(* an "L" image a number 0..255.  Colours are kept symbolic: <<id, x, y>>  *)
(* is the colour the picture id has at (x, y).                             *)
(***************************************************************************)
EXTENDS Integers, Sequences, FiniteSets, TLC

\* ------------------------------------------------------------- bounds ---
\* Largest source width and height tried.
MaxDim == 4
\* Largest explicit "size" argument tried besides the default (50, 50).
MaxSize == 3
\* Number of consecutive runs of the driver that are followed.
MaxRuns == 2

\* ---------------------------------------------------------- constants ---
\* size=(50, 50): the default of create_rounded_portrait, used by main().
DefaultW == 50
DefaultH == 50
DefaultSize == <<DefaultW, DefaultH>>

Abs(n) == IF n < 0 THEN -n ELSE n
Min2(a, b) == IF a <= b THEN a ELSE b

Coords(size) == (0 .. size[1] - 1) \X (0 .. size[2] - 1)

\* -------------------------------------------------- imaging primitives ---
\* Image.open(path): the decoded picture, in the mode the file stores.
\* file = [mode, size, id, alpha]; alpha is the stored alpha of an RGBA file.
ImageOpen(file) ==
    [mode |-> file.mode,
     size |-> file.size,
     px   |-> [c \in Coords(file.size) |->
                 IF file.mode = "RGBA"
                 THEN [rgb |-> <<file.id, c[1], c[2]>>, a |-> file.alpha]
                 ELSE [rgb |-> <<file.id, c[1], c[2]>>]]]

\* .convert("RGBA"): an image without alpha gets a fully opaque alpha channel.
ConvertRGBA(im) ==
    IF im.mode = "RGBA" THEN im
    ELSE [mode |-> "RGBA",
          size |-> im.size,
          px   |-> [c \in Coords(im.size) |-> [rgb |-> im.px[c].rgb, a |-> 255]]]

\* Variant of CropBox: top computed from the width instead of the height.
CropBoxTopFromWidth(width, height) ==
    LET min_dim == Min2(width, height)
        left    == (width - min_dim) \div 2
        top     == (width - min_dim) \div 2
    IN  <<left, top, left + min_dim, top + min_dim>>

\* Variant of CropBox: the margins rounded up instead of down.
CropBoxCeil(width, height) ==
    LET min_dim == Min2(width, height)
        left    == (width - min_dim + 1) \div 2
        top     == (height - min_dim + 1) \div 2
    IN  <<left, top, left + min_dim, top + min_dim>>

\* The crop box of create_rounded_portrait: <<left, top, right, bottom>>.
\* Python's // on non-negative operands is \div.
CropBox(width, height) ==
    LET min_dim == Min2(width, height)
        left    == (width - min_dim) \div 2
        top     == (height - min_dim) \div 2
        right   == left + min_dim
        bottom  == top + min_dim
    IN  <<left, top, right, bottom>>

\* img.crop((left, top, right, bottom)): the region [left, right) x [top, bottom).
Crop(im, box) ==
    LET sz == <<box[3] - box[1], box[4] - box[2]>>
    IN  [mode |-> im.mode,
         size |-> sz,
         px   |-> [c \in Coords(sz) |-> im.px[<<c[1] + box[1], c[2] + box[2]>>]]]

\* img.resize(size, LANCZOS): an image of exactly `size`.  The filter's
\* arithmetic belongs to the imaging library; the model keeps, for every
\* output sample, the source sample its filter window is centred on and
\* marks the colour as resampled.
Resize(im, size) ==
    LET srcOf(c) == <<(c[1] * im.size[1]) \div size[1],
                      (c[2] * im.size[2]) \div size[2]>>
    IN  [mode |-> im.mode,
         size |-> size,
         px   |-> [c \in Coords(size) |->
                     [rgb |-> <<"LANCZOS", im.px[srcOf(c)].rgb>>,
                      a   |-> im.px[srcOf(c)].a]]]

\* Variant of ImageNew: width and height taken in the wrong order.
ImageNewSwapped(mode, size, color) ==
    [mode |-> mode,
     size |-> <<size[2], size[1]>>,
     px   |-> [c \in Coords(<<size[2], size[1]>>) |-> color]]

\* Image.new(mode, size, color).
ImageNew(mode, size, color) ==
    [mode |-> mode, size |-> size, px |-> [c \in Coords(size) |-> color]]

\* ImageDraw.ellipse, as the imaging library (Pillow, libImaging/Draw.c:
\* ellipseNew, quarter_init, quarter_delta, quarter_next) rasterises it; the
\* script only chooses the box (0, 0) + size and the fill.
\* The rasteriser walks one quarter of the outline in
\* doubled coordinates (steps of 2, so that the centre of an even-sized box
\* is a lattice point), from (a, b % 2) to (a % 2, b), each time moving to
\* the neighbour (up, up-left or left) that deviates least from the curve
\*   a^2 y^2 + b^2 x^2 = a^2 b^2,   a = x1 - x0, b = y1 - y0.
QuarterDelta(a, b, x, y) == Abs(a * a * y * y + b * b * x * x - a * a * b * b)

QuarterNext(a, b, cx, cy) ==
    LET d1 == QuarterDelta(a, b, cx, cy + 2)
        d2 == QuarterDelta(a, b, cx - 2, cy + 2)
        d3 == QuarterDelta(a, b, cx - 2, cy)
        p1 == <<cx, cy + 2, d1>>
        p2 == IF cx > 1 /\ p1[3] > d2 THEN <<cx - 2, cy + 2, d2>> ELSE p1
        p3 == IF cx > 1 /\ p2[3] > d3 THEN <<cx - 2, cy, d3>> ELSE p2
    IN  <<p3[1], p3[2]>>

\* The half-width (doubled) of every row of the quarter: the x of the first
\* outline point the walk reaches on that row, which is its rightmost.
RECURSIVE QuarterRows(_, _, _, _, _)
QuarterRows(a, b, cx, cy, rows) ==
    LET seen == IF cy \in DOMAIN rows THEN rows ELSE rows @@ (cy :> cx)
    IN  IF cx = a % 2 /\ cy = b
        THEN seen
        ELSE LET n == QuarterNext(a, b, cx, cy)
             IN  QuarterRows(a, b, n[1], n[2], seen)

\* draw.ellipse(bbox, fill=fill) on image im: the rows of the quarter mirrored
\* in both axes; both corners of the box are inclusive and the
\* drawing is clipped to the image.
DrawEllipse(im, bbox, fill) ==
    LET a    == bbox[3] - bbox[1]
        b    == bbox[4] - bbox[2]
        rows == QuarterRows(a, b, a, b % 2, <<>>)
        in(c) == LET X == 2 * (c[1] - bbox[1]) - a
                     Y == 2 * (c[2] - bbox[2]) - b
                 IN  Abs(Y) \in DOMAIN rows /\ Abs(X) <= rows[Abs(Y)]
    IN  IF a < 0 \/ b < 0 THEN im
        ELSE [im EXCEPT !.px = [c \in Coords(im.size) |->
                                  IF in(c) THEN fill ELSE im.px[c]]]

\* dst.paste(src, (ox, oy)) without a mask: every channel of src replaces
\* dst's over the region src covers.
Paste(dst, src, off) ==
    [dst EXCEPT !.px = [c \in Coords(dst.size) |->
        LET s == <<c[1] - off[1], c[2] - off[2]>>
        IN  IF s \in Coords(src.size) THEN src.px[s] ELSE dst.px[c]]]

\* Variant of Putalpha: the mask is multiplied into the existing alpha
\* instead of replacing it.
PutalphaMultiply(im, mask) ==
    [im EXCEPT !.px = [c \in Coords(im.size) |->
                         [rgb |-> im.px[c].rgb,
                          a   |-> (im.px[c].a * mask.px[c]) \div 255]]]

\* Variant of Putalpha: the colour of fully transparent pixels is cleared.
PutalphaClearColour(im, mask) ==
    [im EXCEPT !.px = [c \in Coords(im.size) |->
                         [rgb |-> IF mask.px[c] = 0 THEN <<0, 0, 0>> ELSE im.px[c].rgb,
                          a   |-> mask.px[c]]]]

\* im.putalpha(mask): the alpha band is replaced by the mask, the colour
\* bands are left as they are.
Putalpha(im, mask) ==
    [im EXCEPT !.px = [c \in Coords(im.size) |->
                         [rgb |-> im.px[c].rgb, a |-> mask.px[c]]]]

\* The mask of create_rounded_portrait (lines 33-35).
MakeMask(size) ==
    DrawEllipse(ImageNew("L", size, 0), <<0, 0>> \o size, 255)

\* The image create_rounded_portrait saves for a decodable file (lines 14-40).
CreateRoundedPortrait(file, size) ==
    LET img0    == ConvertRGBA(ImageOpen(file))
        box     == CropBox(img0.size[1], img0.size[2])
        img1    == Crop(img0, box)
        img2    == Resize(img1, size)
        mask    == MakeMask(size)
        output0 == ImageNew("RGBA", size, [rgb |-> <<0, 0, 0>>, a |-> 0])
        output1 == Paste(output0, img2, <<0, 0>>)
    IN  Putalpha(output1, mask)


\* ------------------------------------------------------- the file system ---
\* A file's content: [kind |-> "absent"], [kind |-> "corrupt"] (exists, not
\* decodable), [kind |-> "partial"] (what a failed write may leave),
\* [kind |-> "image", mode, size, id, alpha] (a decodable source picture) or
\* [kind |-> "png", image] (a PNG written by save).
\*
\* The driver never looks at pixels: what matters to it is which files are
\* written and whether two contents are the same.  The image it saves is
\* therefore named by the call that built it, Portrait(file, size), and
\* PortraitPixels gives its pixels.
Absent  == [kind |-> "absent"]
Corrupt == [kind |-> "corrupt"]
Partial == [kind |-> "partial"]

\* The fixed list of main() (lines 48-54).
philosophers ==
    << <<"socrates.jpg",  "socrates-rounded.png">>,
       <<"plato.jpg",     "plato-rounded.png">>,
       <<"aristotle.jpg", "aristotle-rounded.png">>,
       <<"nietzsche.jpg", "nietzsche-rounded.png">>,
       <<"descartes.jpg", "descartes-rounded.png">> >>

Pairs       == 1 .. Len(philosophers)
InputFile(i)  == philosophers[i][1]
OutputFile(i) == philosophers[i][2]
InputNames  == {InputFile(i) : i \in Pairs}
OutputNames == {OutputFile(i) : i \in Pairs}
FileNames   == InputNames \cup OutputNames

\* The source pictures tried for the i-th input: landscape, portrait and
\* square ones, within MaxDim.
PictureOf(i) ==
    [kind  |-> "image",
     mode  |-> IF i % 2 = 0 THEN "RGBA" ELSE "RGB",
     size  |-> <<1 + (i % MaxDim), 1 + ((2 * i) % MaxDim)>>,
     id    |-> InputFile(i),
     alpha |-> 128]

\* The image create_rounded_portrait builds from `file` at `size` (lines 14-40).
Portrait(f, sz) == [of |-> f, size |-> sz]
PortraitPixels(p) == CreateRoundedPortrait(p.of, p.size)

\* Variant of Exists: the test inverted.
ExistsInverted(d, path) == d[path].kind = "absent"

\* os.path.exists(path)
Exists(d, path) == d[path].kind # "absent"

\* Whether Image.open(path) succeeds on an existing file.
Decodable(d, path) == d[path].kind = "image"

\* Variant of Save: the new image is appended to what the file held.
SaveAppend(d, path, image) ==
    [d EXCEPT ![path] = [kind |-> "png", image |-> image, after |-> d[path]]]

\* output.save(output_path, "PNG") succeeding: the file is (over)written.
Save(d, path, image) == [d EXCEPT ![path] = [kind |-> "png", image |-> image]]

\* Variant of FailedSave: a failed save removes every output written so far.
FailedSaveRollback(d, path) ==
    {[n \in DOMAIN d |-> IF n = path \/ d[n].kind = "png" THEN Absent ELSE d[n]]}

\* output.save(output_path, "PNG") raising: the file systems it may leave.
\* Only output_path is touched: it is left as it was (the open failed), or
\* truncated/partly written, or removed again.
FailedSave(d, path) ==
    {[d EXCEPT ![path] = c] : c \in {d[path], Partial, Absent}}

\* The console lines.
Created(path) == [text |-> "Created", path |-> path]
Warning(path) == [text |-> "Warning: not found", path |-> path]
Summary1 == [text |-> "\nAll portraits processed!", path |-> ""]
Summary2 == [text |-> "Move the -rounded.png files to the parent directory to use them.",
             path |-> ""]

\* ---------------------------------------------------------------- state ---
VARIABLES
    \* the batch driver, main()
    disk,      \* file name -> content, the working directory
    pc,        \* index in philosophers of the pair the loop is at
    status,    \* "running", "done" (returned) or "crashed" (exception escaped)
    console,   \* the lines printed by the current run
    writes,    \* output name -> number of completed saves in the current run
    run,       \* number of the current run
    first,     \* [status, disk] at the end of the previous run, or status "none"
    \* one call of create_rounded_portrait, statement by statement
    tpc,       \* the statement about to execute
    file,      \* the content of input_path
    size,      \* the size argument
    img,       \* img
    box,       \* <<left, top, right, bottom>>
    mask,      \* mask
    output,    \* output
    saved      \* the image written to output_path

drv  == <<disk, pc, status, console, writes, run, first>>
call == <<tpc, file, size, img, box, mask, output, saved>>
vars == <<disk, pc, status, console, writes, run, first,
          tpc, file, size, img, box, mask, output, saved>>

None == [kind |-> "none"]

\* ------------------------------------------------------ the batch driver ---
CallIdle ==
    /\ tpc = "idle" /\ file = None /\ size = <<0, 0>> /\ img = None
    /\ box = <<0, 0, 0, 0>> /\ mask = None /\ output = None /\ saved = None

\* A working directory holding any combination of absent, undecodable and
\* decodable inputs, and no outputs yet.
Init ==
    /\ \E k \in [Pairs -> {"absent", "corrupt", "image"}] :
          disk = [n \in FileNames |->
                    IF \E i \in Pairs : n = InputFile(i) /\ k[i] = "image"
                    THEN PictureOf(CHOOSE i \in Pairs : n = InputFile(i))
                    ELSE IF \E i \in Pairs : n = InputFile(i) /\ k[i] = "corrupt"
                    THEN Corrupt
                    ELSE Absent]
    /\ pc = 1
    /\ status = "running"
    /\ console = <<>>
    /\ writes = [o \in OutputNames |-> 0]
    /\ run = 1
    /\ first = [status |-> "none"]
    /\ CallIdle

\* The for loop has a pair left (line 56).
InLoop == status = "running" /\ pc <= Len(philosophers)

\* Variant of LoopDone: the loop ends one pair early.
LoopDoneEarly == status = "running" /\ pc >= Len(philosophers)

\* The for loop is exhausted (line 56).
LoopDone == status = "running" /\ pc > Len(philosophers)

\* Variant of Warn: the missing input is handed to the transform, which raises.
WarnRaises ==
    /\ InLoop
    /\ ~Exists(disk, InputFile(pc))
    /\ status' = "crashed"
    /\ UNCHANGED <<disk, pc, console, writes, run, first>>

\* Lines 59-60: the input does not exist.
Warn ==
    /\ InLoop
    /\ ~Exists(disk, InputFile(pc))
    /\ console' = Append(console, Warning(InputFile(pc)))
    /\ pc' = pc + 1
    /\ UNCHANGED <<disk, status, writes, run, first>>

\* Lines 57-58, create_rounded_portrait returning normally (lines 14-44).
Transform ==
    /\ InLoop
    /\ Exists(disk, InputFile(pc))
    /\ Decodable(disk, InputFile(pc))
    /\ disk' = Save(disk, OutputFile(pc), Portrait(disk[InputFile(pc)], DefaultSize))
    /\ writes' = [writes EXCEPT ![OutputFile(pc)] = @ + 1]
    /\ console' = Append(console, Created(OutputFile(pc)))
    /\ pc' = pc + 1
    /\ UNCHANGED <<status, run, first>>

\* Lines 57-58, Image.open raising (line 14): nothing catches it.
DecodeError ==
    /\ InLoop
    /\ Exists(disk, InputFile(pc))
    /\ ~Decodable(disk, InputFile(pc))
    /\ status' = "crashed"
    /\ UNCHANGED <<disk, pc, console, writes, run, first>>

\* Lines 57-58, output.save raising (line 43): nothing catches it.
EncodeError ==
    /\ InLoop
    /\ Exists(disk, InputFile(pc))
    /\ Decodable(disk, InputFile(pc))
    /\ disk' \in FailedSave(disk, OutputFile(pc))
    /\ status' = "crashed"
    /\ UNCHANGED <<pc, console, writes, run, first>>

\* Lines 62-63: after the loop.
Finish ==
    /\ LoopDone
    /\ console' = console \o <<Summary1, Summary2>>
    /\ status' = "done"
    /\ UNCHANGED <<disk, pc, writes, run, first>>

\* The script is started again in the same directory.
Rerun ==
    /\ status \in {"done", "crashed"}
    /\ run < MaxRuns
    /\ first' = [status |-> status, disk |-> disk]
    /\ run' = run + 1
    /\ pc' = 1
    /\ status' = "running"
    /\ console' = <<>>
    /\ writes' = [o \in OutputNames |-> 0]
    /\ UNCHANGED disk

Step == Warn \/ Transform \/ DecodeError \/ EncodeError \/ Finish

Next ==
    \/ Warn /\ UNCHANGED call
    \/ Transform /\ UNCHANGED call
    \/ DecodeError /\ UNCHANGED call
    \/ EncodeError /\ UNCHANGED call
    \/ Finish /\ UNCHANGED call
    \/ Rerun /\ UNCHANGED call

Spec == Init /\ [][Next]_vars

\* Every statement of the script terminates, so a run that can take a step
\* takes one.
LiveSpec == Spec /\ WF_vars(Step /\ UNCHANGED call)


\* ------------------------------------ one call of create_rounded_portrait ---
\* create_rounded_portrait(input_path, output_path, size) on a decodable
\* file, one statement at a time.
DrvIdle ==
    /\ disk = [n \in FileNames |-> Absent] /\ pc = 0 /\ status = "idle"
    /\ console = <<>> /\ writes = [o \in OutputNames |-> 0] /\ run = 0
    /\ first = [status |-> "none"]

\* The pictures and sizes the call is tried on: every width and height up to
\* MaxDim, without alpha or with a stored alpha, and every size up to MaxSize
\* besides the default.
Pictures ==
    {[kind |-> "image", mode |-> m[1], size |-> <<w, h>>, id |-> "p", alpha |-> m[2]] :
        m \in {<<"RGB", 255>>, <<"RGBA", 0>>, <<"RGBA", 128>>},
        w \in 1 .. MaxDim, h \in 1 .. MaxDim}
Sizes == ((1 .. MaxSize) \X (1 .. MaxSize)) \cup {DefaultSize}

InitT ==
    /\ DrvIdle
    /\ tpc = "open"
    /\ file \in Pictures
    /\ size \in Sizes
    /\ img = None /\ box = <<0, 0, 0, 0>> /\ mask = None
    /\ output = None /\ saved = None

\* line 14
TOpen ==
    /\ tpc = "open"
    /\ img' = ConvertRGBA(ImageOpen(file))
    /\ tpc' = "box"
    /\ UNCHANGED <<file, size, box, mask, output, saved>>

\* lines 17-24
TBox ==
    /\ tpc = "box"
    /\ box' = CropBox(img.size[1], img.size[2])
    /\ tpc' = "crop"
    /\ UNCHANGED <<file, size, img, mask, output, saved>>

\* line 27
TCrop ==
    /\ tpc = "crop"
    /\ img' = Crop(img, box)
    /\ tpc' = "resize"
    /\ UNCHANGED <<file, size, box, mask, output, saved>>

\* line 30
TResize ==
    /\ tpc = "resize"
    /\ img' = Resize(img, size)
    /\ tpc' = "mask"
    /\ UNCHANGED <<file, size, box, mask, output, saved>>

\* line 33
TMask ==
    /\ tpc = "mask"
    /\ mask' = ImageNew("L", size, 0)
    /\ tpc' = "ellipse"
    /\ UNCHANGED <<file, size, img, box, output, saved>>

\* lines 34-35
TEllipse ==
    /\ tpc = "ellipse"
    /\ mask' = DrawEllipse(mask, <<0, 0>> \o size, 255)
    /\ tpc' = "canvas"
    /\ UNCHANGED <<file, size, img, box, output, saved>>

\* line 38
TCanvas ==
    /\ tpc = "canvas"
    /\ output' = ImageNew("RGBA", size, [rgb |-> <<0, 0, 0>>, a |-> 0])
    /\ tpc' = "paste"
    /\ UNCHANGED <<file, size, img, box, mask, saved>>

\* line 39
TPaste ==
    /\ tpc = "paste"
    /\ output' = Paste(output, img, <<0, 0>>)
    /\ tpc' = "putalpha"
    /\ UNCHANGED <<file, size, img, box, mask, saved>>

\* line 40
TPutalpha ==
    /\ tpc = "putalpha"
    /\ output' = Putalpha(output, mask)
    /\ tpc' = "save"
    /\ UNCHANGED <<file, size, img, box, mask, saved>>

\* line 43
TSave ==
    /\ tpc = "save"
    /\ saved' = output
    /\ tpc' = "done"
    /\ UNCHANGED <<file, size, img, box, mask, output>>

NextT ==
    \/ TOpen /\ UNCHANGED drv
    \/ TBox /\ UNCHANGED drv
    \/ TCrop /\ UNCHANGED drv
    \/ TResize /\ UNCHANGED drv
    \/ TMask /\ UNCHANGED drv
    \/ TEllipse /\ UNCHANGED drv
    \/ TCanvas /\ UNCHANGED drv
    \/ TPaste /\ UNCHANGED drv
    \/ TPutalpha /\ UNCHANGED drv
    \/ TSave /\ UNCHANGED drv

SpecT == InitT /\ [][NextT]_vars

\* The statements composed are the image the driver saves.
CallAgrees == tpc = "done" => saved = PortraitPixels(Portrait(file, size))


\* ------------------------------------------- claims about the transform ---
SrcW == file.size[1]
SrcH == file.size[2]
BoxKnown == tpc \notin {"idle", "open", "box"}
Masked == tpc \in {"save", "done"}

\* C4: for every source of width W >= 1 and height H >= 1 the crop box is
\* left = floor((W - minDim)/2), top = floor((H - minDim)/2),
\* right = left + minDim, bottom = top + minDim with minDim = min(W, H); it is
\* a square of side minDim inside the image, the full image when W = H, and
\* it is the box the image is cropped to.
C4_CropBoxCentredSquare ==
    BoxKnown =>
        LET minDim == IF SrcW <= SrcH THEN SrcW ELSE SrcH
            left   == box[1]
            top    == box[2]
            right  == box[3]
            bottom == box[4]
        IN  /\ SrcW >= 1 /\ SrcH >= 1
            /\ 2 * left <= SrcW - minDim /\ SrcW - minDim < 2 * left + 2
            /\ 2 * top <= SrcH - minDim /\ SrcH - minDim < 2 * top + 2
            /\ right = left + minDim
            /\ bottom = top + minDim
            /\ right - left = bottom - top
            /\ 0 <= left /\ right <= SrcW
            /\ 0 <= top /\ bottom <= SrcH
            /\ (SrcW = SrcH => box = <<0, 0, SrcW, SrcH>>)
            /\ (tpc = "resize" => img.size = <<minDim, minDim>>)

\* A landscape source with an odd excess has been cropped.
C4_Witness ==
    /\ tpc = "resize"
    /\ file.size = <<4, 1>>
    /\ box = <<1, 0, 2, 1>>
    /\ img.size = <<1, 1>>

\* C5: a non-square source loses pixels from its longer dimension only: when
\* width > height, top = 0, bottom = height, and the right margin
\* width - right equals the left margin, or exceeds it by exactly 1 when
\* width - minDim is odd; likewise top/bottom when height > width.
C5_CropSymmetric ==
    BoxKnown =>
        LET left   == box[1]
            top    == box[2]
            right  == box[3]
            bottom == box[4]
        IN  /\ (SrcW > SrcH =>
                  /\ top = 0 /\ bottom = SrcH
                  /\ (SrcW - right) - left = (SrcW - SrcH) % 2)
            /\ (SrcH > SrcW =>
                  /\ left = 0 /\ right = SrcW
                  /\ (SrcH - bottom) - top = (SrcH - SrcW) % 2)

\* A portrait source with an odd excess: one more row is removed below.
C5_Witness ==
    /\ BoxKnown
    /\ SrcH > SrcW
    /\ (SrcH - SrcW) % 2 = 1
    /\ (SrcH - box[4]) = box[2] + 1

\* (x - cx)^2/(w/2)^2 + (y - cy)^2/(h/2)^2 <= 1 with cx = w/2, cy = h/2,
\* cleared of fractions.
InEllipse(w, h, X, Y) == X * X * h * h + Y * Y * w * w <= w * w * h * h
InsideEllipse(sz, c) == InEllipse(sz[1], sz[2], 2 * c[1] - sz[1], 2 * c[2] - sz[2])
\* The same after moving one pixel towards the centre along one axis.
Inward(v) == IF Abs(v) >= 2 THEN Abs(v) - 2 ELSE 0
NearEllipse(sz, c) ==
    LET X == 2 * c[1] - sz[1]
        Y == 2 * c[2] - sz[2]
    IN  \/ InEllipse(sz[1], sz[2], Inward(X), Y)
        \/ InEllipse(sz[1], sz[2], X, Inward(Y))

\* C6 as stated: the alpha of every output pixel is 255 if the pixel
\* satisfies the ellipse inequality and 0 otherwise.
C6_AlphaExactlyEllipse ==
    Masked =>
        \A c \in Coords(size) :
            output.px[c].a = IF InsideEllipse(size, c) THEN 255 ELSE 0

\* C6, amended: the alpha of every output pixel is exactly 0 or 255, whatever
\* the alpha of the source; every pixel satisfying the ellipse inequality has
\* alpha 255; a pixel with alpha 255 that does not satisfy it lies one pixel
\* outside the ellipse; for the 50x50 output pixel (0,0) has alpha 0 and
\* pixel (25,25) alpha 255.
C6_AlphaHardEdged ==
    Masked =>
        /\ \A c \in Coords(size) :
              /\ output.px[c].a \in {0, 255}
              /\ (InsideEllipse(size, c) => output.px[c].a = 255)
              /\ (output.px[c].a = 255 => NearEllipse(size, c))
        /\ (size = DefaultSize =>
              /\ output.px[<<0, 0>>].a = 0
              /\ output.px[<<25, 25>>].a = 255)

\* A 50x50 output of a half-transparent source: opaque inside, transparent in
\* the corner, and opaque at a boundary pixel the inequality excludes.
C6_Witness ==
    /\ tpc = "done"
    /\ size = DefaultSize
    /\ file.mode = "RGBA" /\ file.alpha = 128
    /\ saved.px[<<0, 0>>].a = 0
    /\ saved.px[<<25, 25>>].a = 255
    /\ saved.px[<<0, 24>>].a = 255
    /\ ~InsideEllipse(size, <<0, 24>>)

\* C7: the image written has exactly the requested dimensions (50x50 as the
\* driver calls it) and an alpha channel, whatever the source's width,
\* height and aspect ratio.
C7_OutputSizeAndAlpha ==
    tpc = "done" =>
        /\ saved.size = size
        /\ saved.mode = "RGBA"
        /\ DOMAIN saved.px = Coords(size)
        /\ \A c \in Coords(size) : "a" \in DOMAIN saved.px[c]
        /\ (size = DefaultSize => saved.size = <<50, 50>>)

\* A non-square source smaller than the target, written at 50x50.
C7_Witness ==
    /\ tpc = "done"
    /\ size = DefaultSize
    /\ file.size = <<1, 3>>
    /\ saved.size = <<50, 50>>
    /\ saved.mode = "RGBA"

\* C10: the RGB of every output pixel, transparent ones included, is the RGB
\* of the resized image at that pixel: the paste sets every channel from the
\* resized image and putalpha replaces the alpha only.
C10_ColourKept ==
    /\ (tpc = "putalpha" => output.px = img.px)
    /\ (Masked =>
          \A c \in Coords(size) :
              /\ output.px[c].rgb = img.px[c].rgb
              /\ output.px[c].a = mask.px[c])

\* A fully transparent output pixel that still carries the resized colour.
C10_Witness ==
    /\ tpc = "done"
    /\ \E c \in Coords(size) :
          /\ saved.px[c].a = 0
          /\ saved.px[c].rgb = img.px[c].rgb
          /\ saved.px[c].rgb[1] = "LANCZOS"


\* ---------------------------------------------- claims about the driver ---
\* The fixed input/output name pairs, in list order.
ExpectedInputs ==
    <<"socrates.jpg", "plato.jpg", "aristotle.jpg", "nietzsche.jpg", "descartes.jpg">>
ExpectedOutputs ==
    <<"socrates-rounded.png", "plato-rounded.png", "aristotle-rounded.png",
      "nietzsche-rounded.png", "descartes-rounded.png">>

Terminated == status \in {"done", "crashed"}
Present(i) == disk[ExpectedInputs[i]].kind # "absent"
LinesEqual(line) == {k \in DOMAIN console : console[k] = line}
WarningLines == {k \in DOMAIN console : console[k].text = "Warning: not found"}
SummaryLines == {k \in DOMAIN console : console[k] \in {Summary1, Summary2}}

\* C1: a pair whose input file does not exist does not make the driver
\* raise: the driver prints exactly one warning naming that input file,
\* writes no output for the pair and goes on with the next pair; a run never
\* stops at a missing input: a run that no failed transform stops handles all
\* five pairs, and a run that is stopped is stopped at an existing input.
C1_MissingInputSkipped ==
    /\ [][(InLoop /\ disk[ExpectedInputs[pc]].kind = "absent") =>
            /\ status' = "running"
            /\ pc' = pc + 1
            /\ console' = Append(console, Warning(ExpectedInputs[pc]))
            /\ disk' = disk
            /\ writes' = writes]_vars
    /\ [](status = "crashed" => Present(pc))
    /\ [](status = "done" =>
            \A i \in 1 .. 5 :
                console[i] \in {Created(ExpectedOutputs[i]), Warning(ExpectedInputs[i])})
    /\ [](\A i \in 1 .. 5 :
            (i < pc /\ ~Present(i)) =>
                /\ Cardinality(LinesEqual(Warning(ExpectedInputs[i]))) = 1
                /\ console[i] = Warning(ExpectedInputs[i])
                /\ writes[ExpectedOutputs[i]] = 0
                /\ disk[ExpectedOutputs[i]].kind = "absent")

\* The first input is missing, and the run went on to transform the second.
C1_Witness ==
    /\ status = "done"
    /\ ~Present(1)
    /\ console[1] = Warning("socrates.jpg")
    /\ console[2] = Created("plato-rounded.png")
    /\ disk["socrates-rounded.png"].kind = "absent"

\* C2: when create_rounded_portrait fails on the k-th pair (decode error or
\* write error) the run stops there: no later pair is processed (no output,
\* no line for it), the completion message is not printed, and the outputs
\* written for the earlier pairs stay on disk as they were.
C2_FailureStopsRun ==
    /\ [][(InLoop /\ disk[ExpectedInputs[pc]].kind \notin {"absent", "image"}) =>
            status' = "crashed"]_vars
    /\ [][(status = "running" /\ status' = "crashed") =>
            /\ \A n \in DOMAIN disk : n # ExpectedOutputs[pc] => disk'[n] = disk[n]
            /\ console' = console
            /\ writes' = writes
            /\ pc' = pc]_vars
    /\ [][status = "crashed" => (run' = run + 1 /\ disk' = disk)]_vars
    /\ [](status = "crashed" =>
            /\ pc \in 1 .. 5
            /\ Len(console) = pc - 1
            /\ SummaryLines = {}
            /\ \A i \in 1 .. 5 :
                  /\ i >= pc => /\ writes[ExpectedOutputs[i]] = 0
                                /\ LinesEqual(Created(ExpectedOutputs[i])) = {}
                                /\ LinesEqual(Warning(ExpectedInputs[i])) = {}
                  /\ (i < pc /\ Present(i)) =>
                                /\ writes[ExpectedOutputs[i]] = 1
                                /\ disk[ExpectedOutputs[i]].kind = "png")

\* The save of the third pair failed after two outputs had been written.
C2_Witness ==
    /\ status = "crashed"
    /\ run = 1
    /\ pc = 3
    /\ disk["aristotle.jpg"].kind = "image"
    /\ disk["aristotle-rounded.png"] = Partial
    /\ disk["socrates-rounded.png"].kind = "png"
    /\ disk["plato-rounded.png"].kind = "png"
    /\ disk["nietzsche.jpg"].kind = "image"
    /\ disk["nietzsche-rounded.png"].kind = "absent"

\* C3: a completed run (no transform failed) has written exactly the outputs
\* paired with the inputs present, once each and under the paired
\* "-rounded.png" name, and has printed exactly one warning per absent
\* input; with no input present: five warnings, no output file.
C3_OutputsMatchInputs ==
    status = "done" =>
        /\ DOMAIN writes = {ExpectedOutputs[i] : i \in 1 .. 5}
        /\ \A i \in 1 .. 5 :
              IF Present(i)
              THEN /\ writes[ExpectedOutputs[i]] = 1
                   /\ disk[ExpectedOutputs[i]].kind = "png"
                   /\ Cardinality(LinesEqual(Created(ExpectedOutputs[i]))) = 1
                   /\ LinesEqual(Warning(ExpectedInputs[i])) = {}
              ELSE /\ writes[ExpectedOutputs[i]] = 0
                   /\ disk[ExpectedOutputs[i]].kind = "absent"
                   /\ LinesEqual(Created(ExpectedOutputs[i])) = {}
                   /\ Cardinality(LinesEqual(Warning(ExpectedInputs[i]))) = 1
        /\ Cardinality(WarningLines) = Cardinality({i \in 1 .. 5 : ~Present(i)})
        /\ \A i \in 1 .. 5 : disk[ExpectedInputs[i]].kind \in {"absent", "image"}
        /\ ((\A i \in 1 .. 5 : ~Present(i)) =>
               /\ Cardinality(WarningLines) = 5
               /\ \A n \in DOMAIN disk : disk[n].kind = "absent")

\* A completed run over a directory holding two of the five inputs.
C3_Witness ==
    /\ status = "done"
    /\ run = 1
    /\ Present(1) /\ ~Present(2) /\ Present(3) /\ ~Present(4) /\ ~Present(5)
    /\ writes["socrates-rounded.png"] = 1
    /\ writes["aristotle-rounded.png"] = 1
    /\ Cardinality(WarningLines) = 3

PairLinesInOrder ==
    \A k \in DOMAIN console :
        k <= 5 => console[k] \in {Created(ExpectedOutputs[k]), Warning(ExpectedInputs[k])}

\* C9 as stated: every run ends with the five pairs handled in list order,
\* one line each, followed by the two-line summary printed exactly once.
C9_SummaryInEveryRun ==
    Terminated =>
        /\ Len(console) = 7
        /\ PairLinesInOrder
        /\ console[6] = Summary1 /\ console[7] = Summary2

\* C9, amended: every run terminates; the pairs are handled one at a time in
\* list order, each at most once; the two-line summary is printed exactly
\* once in a run in which no transform fails and not at all in a run a
\* failed transform stops, and when printed it follows the lines of all five
\* pairs, never preceding or separating them.
C9_OrderedThenSummary ==
    /\ (status = "running") ~> Terminated
    /\ [][\/ pc' = pc /\ status' # status
          \/ pc' = pc + 1 /\ Len(console') = Len(console) + 1
          \/ pc' = 1 /\ run' = run + 1]_vars
    /\ [](/\ PairLinesInOrder
          /\ SummaryLines \subseteq {6, 7}
          /\ (status = "done" => /\ Len(console) = 7
                                 /\ console[6] = Summary1
                                 /\ console[7] = Summary2)
          /\ (status # "done" => /\ Len(console) = pc - 1
                                 /\ pc - 1 <= 5
                                 /\ SummaryLines = {}))

\* A completed run: a created line, a warning, then the summary.
C9_Witness ==
    /\ status = "done"
    /\ Len(console) = 7
    /\ console[1] = Created("socrates-rounded.png")
    /\ console[2] = Warning("plato.jpg")
    /\ console[6] = Summary1
    /\ console[7] = Summary2

=============================================================================
